---- MODULE Spec2Model ----
(***************************************************************************)
(* A model of dstrf/_model.py: the regression data container REG_Data      *)
(* (load, _precompute, timeslice), the estimator DstRF (fit, _set_mu,      *)
(* _construct_f, _solve, _residual) and the soft-threshold shrink.         *)
(*                                                                         *)
(* Numbers.  Floating-point arrays are modelled by integer arrays.  One    *)
(* sensor is modelled, so every (sensor x sensor) matrix is a scalar: its  *)
(* lower Cholesky factor exists iff the scalar is positive and finite, and *)
(* linalg.solve against the factor is a division.  A division by           *)
(* sqrt(n) is not evaluated: an array keeps its integer samples `v` and    *)
(* the square `sq` = <<num, den>> (in lowest terms) of the factor it has   *)
(* been multiplied by, so the array stands for v * sqrt(num / den).        *)
(***************************************************************************)
EXTENDS Integers, Sequences, FiniteSets, TLC

VARIABLES
    datakeys,   \* REG_Data.datakeys: the list object made by REG_Data.__init__
    data,       \* the REG_Data instance: meg, covariates, _norm_factor, cached statistics
    sliced,     \* the REG_Data instance returned by timeslice inside fit (idx given)
    model,      \* the DstRF instance
    fit,        \* the frame of DstRF.fit: position, arguments and locals
    solve,      \* the frame of DstRF._solve: trial, inner iteration, gamma, sigma_b
    exc,        \* the exception the last call propagated to its caller
    hist,       \* history of the running fit, kept for the properties only
    px          \* inputs and results of the pure functions (shrink, objective)

vars == <<datakeys, data, sliced, model, fit, solve, exc, hist, px>>

----------------------------------------------------------------------------
(* Bounds of the model *)

\* fit is given n_iter in 0..MaxNIter
MaxNIter == 2
\* _solve is given n_iterc in 0..MaxNIterC
MaxNIterC == 2
\* at most this many load calls are made on the container
MaxLoads == 2

----------------------------------------------------------------------------
(* Arithmetic *)

Max(a, b) == IF a >= b THEN a ELSE b

Abs(a) == IF a >= 0 THEN a ELSE 0 - a

RECURSIVE SumTo(_, _)
SumTo(f, n) == IF n = 0 THEN 0 ELSE f[n] + SumTo(f, n - 1)

\* np.sum of a vector
Sum(s) == SumTo(s, Len(s))

\* the inner product of two vectors of the same length
Dot(a, b) == Sum([t \in 1..Len(a) |-> a[t] * b[t]])

RECURSIVE Gcd(_, _)
Gcd(a, b) == IF b = 0 THEN a ELSE Gcd(b, a % b)

\* the fraction n / d in lowest terms
Ratio(n, d) == <<n \div Gcd(n, d), d \div Gcd(n, d)>>

\* the product of two fractions, in lowest terms
RatioMul(p, q) == Ratio(p[1] * q[1], p[2] * q[2])

----------------------------------------------------------------------------
(* Exceptions *)

NoKey == "-"

NoExc == [kind |-> "none", in |-> "-", key |-> NoKey]

\* An exception of class `kind` raised inside `where`.  None of the raise sites
\* of the module (numpy's and scipy's own errors, Python's KeyError, IndexError
\* and TypeError) is given the trial key by the code: `key` is what the error
\* carries about the trial, and only the KeyError of a dictionary lookup names it.
Raise(kind, where) == [kind |-> kind, in |-> where, key |-> NoKey]

RaiseKeyError(where, key) == [kind |-> "KeyError", in |-> where, key |-> key]

----------------------------------------------------------------------------
(* REG_Data *)

Keys == {"a", "b"}

\* filter_length given to REG_Data.__init__
FilterLengths == {2}

\* The sensor recordings handed to load: the time series of the modelled sensor.
MegInputs == {<<1, 3, 2>>, <<3, 3>>}

\* The stimuli handed to load: one predictor stream.  The last is shorter than
\* the filter.
StimInputs == {<<1, 1, 1>>, <<2, 1>>, <<1>>}

\* gaussian_basis(nlevel, span): nlevel rows (lags) and nlevel - 1 columns
\* (atoms) of unit-height bumps; the integer stand-in puts atom a on lags a, a+1.
gaussian_basis(nlevel) ==
    [l \in 1..nlevel |-> [a \in 1..(nlevel - 1) |-> IF l = a \/ l = a + 1 THEN 1 ELSE 0]]

\* covariate_from_stim(stim, M) for one stream: one row per i with i + M <= length,
\* the window w[i:i+M] flipped.
covariate_from_stim(stim, M) ==
    [i \in 1..Max(0, Len(stim) - M + 1) |-> [m \in 1..M |-> stim[i + M - m]]]

\* np.dot(X, basis) for the rows X of a lag-embedded stimulus
ProjectOnBasis(X, basis, M) ==
    [i \in 1..Len(X) |-> [a \in 1..(M - 1) |-> Sum([m \in 1..M |-> X[i][m] * basis[m][a]])]]

\* REG_Data.__init__: empty dictionaries, no norm factor, no cached statistics
\* (the attributes _bbt, _bE, _EtE do not exist before _precompute).
NoCache == [set |-> FALSE, bbt |-> <<>>, bE |-> <<>>, EtE |-> <<>>]

NewREGData(filter_length) ==
    [filter_length |-> filter_length,
     basis |-> gaussian_basis(filter_length),
     covariates |-> <<>>,
     meg |-> <<>>,
     norm_factor |-> <<>>,
     cache |-> NoCache]

\* a dictionary with key k set to v
DictSet(d, k, v) == (k :> v) @@ d

\* self.datakeys.append(key), the first statement of load
LoadAppendKey(dk, key) == Append(dk, key)

\* REG_Data.load(key, meg, stim): the list and the container after the call, and
\* the exception it raised.  The key is appended and the sensor series stored
\* before the covariates are built, so a failing np.dot leaves both behind.
load(dk, d, key, megIn, stimIn) ==
    LET M == d.filter_length
        y == SubSeq(megIn, M, Len(megIn))
        n == Len(y)
        d1 == [d EXCEPT !.meg = DictSet(@, key, [v |-> y, sq |-> Ratio(1, n)]),
                        !.norm_factor = IF @ = <<>> THEN <<n>> ELSE @]
        X == covariate_from_stim(stimIn, M)
    IN  IF Len(X) = 0
        THEN [datakeys |-> LoadAppendKey(dk, key), data |-> d1,
              exc |-> Raise("ValueError", "load")]
        ELSE [datakeys |-> LoadAppendKey(dk, key),
              data |-> [d1 EXCEPT !.covariates =
                           DictSet(@, key, [v |-> ProjectOnBasis(X, d.basis, M),
                                            sq |-> Ratio(1, n)])],
              exc |-> NoExc]

----------------------------------------------------------------------------
(* Cached statistics *)

\* np.dot(b, b.T) for the one-sensor series b
BBt(b) == Dot(b, b)

\* np.dot(b, E): one entry per feature
BE(b, E) == [f \in 1..Len(E[1]) |-> Sum([t \in 1..Len(b) |-> b[t] * E[t][f]])]

\* np.dot(E.T, E)
EtE(E) ==
    [f \in 1..Len(E[1]) |-> [g \in 1..Len(E[1]) |->
        Sum([t \in 1..Len(E) |-> E[t][f] * E[t][g]])]]

\* The loop of _precompute over datakeys[i..]: the generator looks up meg[key]
\* and covariates[key] (KeyError), then the three products are appended in turn;
\* np.dot(b, E) fails when the two time lengths differ, after _bbt got its entry.
\* Both factors of a product carry the trial's sqrt scale, so the product is
\* v * num / den for the trial's sq = <<num, den>>.
RECURSIVE PrecomputeFrom(_, _, _, _)
PrecomputeFrom(dk, d, i, c) ==
    IF i > Len(dk) THEN [cache |-> c, exc |-> NoExc]
    ELSE LET key == dk[i] IN
         IF key \notin DOMAIN d.meg \/ key \notin DOMAIN d.covariates
         THEN [cache |-> c, exc |-> RaiseKeyError("_precompute", key)]
         ELSE LET b == d.meg[key]
                  E == d.covariates[key]
                  c1 == [c EXCEPT !.bbt = Append(@, [v |-> BBt(b.v), sq |-> b.sq])]
              IN  IF Len(b.v) # Len(E.v)
                  THEN [cache |-> c1, exc |-> Raise("ValueError", "_precompute")]
                  ELSE PrecomputeFrom(dk, d, i + 1,
                           [c1 EXCEPT !.bE = Append(@, [v |-> BE(b.v, E.v), sq |-> b.sq]),
                                      !.EtE = Append(@, [v |-> EtE(E.v), sq |-> E.sq])])

precompute_KeepingLists(dk, d) ==
    PrecomputeFrom(dk, d, 1, [d.cache EXCEPT !.set = TRUE])

\* REG_Data._precompute(): the three lists are emptied, then filled per trial.
precompute(dk, d) ==
    PrecomputeFrom(dk, d, 1, [set |-> TRUE, bbt |-> <<>>, bE |-> <<>>, EtE |-> <<>>])

----------------------------------------------------------------------------
(* timeslice *)

\* The time-index sets handed to fit as idx (1-based here).
IdxInputs == {<<1>>, <<1, 2>>}

\* a[idx] along the time axis; IndexError when an index is out of range
InRange(idx, n) == \A j \in 1..Len(idx) : idx[j] <= n

Take(a, idx) == [j \in 1..Len(idx) |-> a[idx[j]]]

\* The loop of timeslice over datakeys[i..], filling the new container s.  Each
\* array is multiplied by self._norm_factor / sqrt(len(idx)).
RECURSIVE TimesliceFrom(_, _, _, _, _)
TimesliceFrom(dk, d, idx, i, s) ==
    IF i > Len(dk) THEN [sliced |-> s, exc |-> NoExc]
    ELSE LET key == dk[i]
             factor == Ratio(d.norm_factor[1], Len(idx))
         IN  IF key \notin DOMAIN d.meg
             THEN [sliced |-> s, exc |-> RaiseKeyError("timeslice", key)]
             ELSE IF ~InRange(idx, Len(d.meg[key].v))
             THEN [sliced |-> s, exc |-> Raise("IndexError", "timeslice")]
             ELSE IF key \notin DOMAIN d.covariates
             THEN [sliced |-> s, exc |-> RaiseKeyError("timeslice", key)]
             ELSE IF ~InRange(idx, Len(d.covariates[key].v))
             THEN [sliced |-> s, exc |-> Raise("IndexError", "timeslice")]
             ELSE TimesliceFrom(dk, d, idx, i + 1,
                    [s EXCEPT !.meg = DictSet(@, key,
                                  [v |-> Take(d.meg[key].v, idx),
                                   sq |-> RatioMul(d.meg[key].sq, factor)]),
                              !.covariates = DictSet(@, key,
                                  [v |-> Take(d.covariates[key].v, idx),
                                   sq |-> RatioMul(d.covariates[key].sq, factor)])])

\* REG_Data.timeslice(idx): a new container; its datakeys is the very list of the
\* original (regdata_.datakeys = self.datakeys), so the variable datakeys serves both.
timeslice(dk, d, idx) ==
    TimesliceFrom(dk, d, idx, 1,
        [NewREGData(d.filter_length) EXCEPT !.norm_factor = <<Len(idx)>>])

----------------------------------------------------------------------------
(* DstRF *)

\* orientation = {'fixed': 1, 'free': 3}
orientation(o) == IF o = "fixed" THEN 1 ELSE 3

\* What DstRF.__init__ is given: a lead field (one sensor; with a 'space'
\* dimension its three columns per source are laid side by side), and a noise
\* covariance.  The rescaling by the spectral norm is a positive factor and is
\* not evaluated: L is the lead field after it.
ModelInputs ==
    {[space |-> FALSE, L |-> <<1, 2>>, noise |-> 5],
     [space |-> TRUE, L |-> <<1, 0, 0, 1, 1, 0>>, noise |-> 3]}

\* L_i * L_i^T for the block of source i (one sensor: a scalar)
BlockEnergy(L, dc, i) == Sum([j \in 1..dc |-> L[(i - 1) * dc + j] * L[(i - 1) * dc + j]])

\* __init__vars: eta = sensors / trace(Gtilde Gtilde^T), Gtilde the lead field
\* whitened by the Cholesky factor of the noise covariance: for one sensor
\* trace(Gtilde Gtilde^T) = (L L^T) / noise.
Eta(L, noise) == noise \div Dot(L, L)

\* A source covariance block Gamma_i (dc x dc) is kept as the number g it is g
\* times the identity of: L_i Gamma_i L_i^T = g * BlockEnergy.
\* for i in range(self.sources_n): sigma_b += L_i gamma[i] L_i^T, on top of acc
RECURSIVE AccumulateSigma(_, _, _, _, _)
AccumulateSigma(L, dc, gamma, i, acc) ==
    IF i = 0 THEN acc
    ELSE AccumulateSigma(L, dc, gamma, i - 1, acc) + BlockEnergy(L, dc, i) * gamma[i]

ChampagneSigmaNoReset(m, sigma_b, gamma) ==
    AccumulateSigma(m.lead_field, orientation(m.orientation), gamma, m.sources_n, sigma_b)

\* sigma_b of the next Champagne iteration: sigma_b = self.noise_covariance.copy(),
\* then every source adds its block (the previous sigma_b is dropped).
ChampagneSigma(m, sigma_b, gamma) ==
    AccumulateSigma(m.lead_field, orientation(m.orientation), gamma, m.sources_n,
                    m.noise_covariance)

\* DstRF.__init__(lead_field, noise_covariance, n_iter, n_iterc)
NewDstRF(in, n_iter, n_iterc) ==
    LET dc == IF in.space THEN 3 ELSE 1
        eta == Eta(in.L, in.noise)
    IN  [lead_field |-> in.L,
         sources_n |-> Len(in.L) \div dc,
         orientation |-> IF in.space THEN "free" ELSE "fixed",
         noise_covariance |-> in.noise,
         n_iter |-> n_iter,
         n_iterc |-> n_iterc,
         eta |-> eta,
         init_sigma_b |-> in.noise + eta * Dot(in.L, in.L),
         Gamma |-> <<>>,
         Sigma_b |-> <<>>,
         keys |-> <<>>,
         theta |-> <<>>,
         err |-> <<>>]

\* The dictionary __init__iter builds over data.datakeys (a repeated key is set again).
RECURSIVE DictOver(_, _, _)
DictOver(dk, i, v) ==
    IF i = 0 THEN <<>> ELSE DictSet(DictOver(dk, i - 1, v), dk[i], v)

\* np.zeros((sources_n * dc, n_predictor_variables * basis.shape[1]))
ZeroTheta(m, d) ==
    [r \in 1..(m.sources_n * orientation(m.orientation)) |->
        [f \in 1..(d.filter_length - 1) |-> 0]]

\* eta * np.eye(dc) for every source
InitGamma(m) == [i \in 1..m.sources_n |-> m.eta]

\* __init__iter(data)
init_iter(m, dk, d) ==
    [m EXCEPT !.Gamma = DictOver(dk, Len(dk), InitGamma(m)),
              !.Sigma_b = DictOver(dk, Len(dk), m.init_sigma_b),
              !.keys = dk,
              !.theta = ZeroTheta(m, d)]

residual_OverNew(theta0, theta1) ==
    [num |-> Sum([r \in 1..Len(theta0) |->
                 Sum([h \in 1..Len(theta0[r]) |->
                     (theta1[r][h] - theta0[r][h]) * (theta1[r][h] - theta0[r][h])])]),
     den |-> Sum([r \in 1..Len(theta1) |-> Dot(theta1[r], theta1[r])])]

\* The relative change _residual(theta0, theta1) = sqrt(num.sum() / den.sum()) is
\* kept as the two sums.  With den = 0 numpy's division gives inf or nan, and
\* so does the square root.
residual(theta0, theta1) ==
    [num |-> Sum([r \in 1..Len(theta0) |->
                 Sum([f \in 1..Len(theta0[r]) |->
                     (theta1[r][f] - theta0[r][f]) * (theta1[r][f] - theta0[r][f])])]),
     den |-> Sum([r \in 1..Len(theta0) |-> Dot(theta0[r], theta0[r])])]

\* The tolerances handed to fit, as fractions <<num, den>>.
TolInputs == {<<1, 1>>, <<2, 1>>}

\* self.err[-1] < tol, for tol >= 0: the squares are compared; inf and nan are
\* below nothing.
ErrBelowTol(e, tol) ==
    e.den # 0 /\ e.num * tol[2] * tol[2] < tol[1] * tol[1] * e.den

\* The coefficients the proximal-gradient solver may return: Fasta is given the
\* objective, the gradient, the penalty and its proximal map, and theta as the
\* starting point; what it returns is not evaluated.
ThetaCoefs == {0, 1, 2}

ThetaVals(m, d) ==
    {[r \in 1..(m.sources_n * orientation(m.orientation)) |->
        [f \in 1..(d.filter_length - 1) |-> IF r = 1 THEN c ELSE 0]] : c \in ThetaCoefs}

\* np.dot(self.lead_field, theta): one entry per feature
LeadTheta(L, theta) ==
    [f \in 1..Len(theta[1]) |-> Sum([r \in 1..Len(L) |-> L[r] * theta[r][f]])]

\* y = meg - np.dot(np.dot(self.lead_field, theta), covariates.T), per time sample
Residual(L, theta, b, E) ==
    [t \in 1..Len(b) |-> b[t] - Dot(LeadTheta(L, theta), E[t])]

\* linalg.cholesky of a one-sensor covariance succeeds iff it is positive
CholeskyOk(s) == s > 0

\* The values one Champagne update may give a source covariance block: the
\* square roots and eigendecompositions are not evaluated.  The negative value
\* stands for a result that is not positive semi-definite (non-finite, or lost
\* to rounding).
GammaVals == {-1, 1}

----------------------------------------------------------------------------
(* State *)

NoKwargs == <<>>

IdleFit ==
    [pc |-> "idle", on |-> "data", kwargs |-> NoKwargs, tol |-> <<0, 1>>, i |-> 0,
     theta |-> <<>>, start |-> <<>>, coefs |-> <<>>, funct |-> <<>>]

IdleSolve == [trial |-> 0, it |-> 0, key |-> NoKey, gamma |-> <<>>, sigma_b |-> 0]

\* nloads: load calls made; steps: the steps of the current outer iteration;
\* nsolve: Champagne calls that returned in this fit; champ: the state of the
\* last Champagne call since the model was initialised; outcome: how the last
\* fit ended; Gamma: self.Gamma when the objective was last built; fresh: the
\* containers whose _precompute has returned with no load since.
NoHist ==
    [nloads |-> 0, steps |-> <<>>, nsolve |-> 0, champ |-> "none", outcome |-> "none",
     Gamma |-> <<>>, fresh |-> {}]

NoPure == [fn |-> "none"]

\* The container fit works on: the one it was given, or its time slice.
FitData == IF fit.on = "sliced" THEN sliced ELSE data

\* The trials loaded before a fit (trials are loaded once, before fitting): each
\* scenario is a sequence of load calls.  TrialA (2 samples kept) and TrialB (1
\* sample kept) have matching sensor and stimulus lengths; the third load gives
\* key "b" a stimulus one sample shorter than its recording.
TrialA == [key |-> "a", meg |-> <<1, 3, 2>>, stim |-> <<1, 1, 1>>]

TrialB == [key |-> "b", meg |-> <<3, 3>>, stim |-> <<2, 1>>]

Scenarios ==
    {<<TrialA>>, <<TrialB, TrialA>>, <<TrialA, TrialA>>,
     <<TrialA, [key |-> "b", meg |-> <<1, 3, 2>>, stim |-> <<2, 1>>]>>}

\* The list and the container after the loads of a scenario.
RECURSIVE LoadAll(_, _, _)
LoadAll(fl, sc, n) ==
    IF n = 0 THEN [datakeys |-> <<>>, data |-> NewREGData(fl)]
    ELSE LET c == LoadAll(fl, sc, n - 1)
         IN  load(c.datakeys, c.data, sc[n].key, sc[n].meg, sc[n].stim)

InitRest ==
    /\ sliced = NewREGData(data.filter_length)
    /\ fit = IdleFit
    /\ solve = IdleSolve
    /\ exc = NoExc
    /\ px = NoPure

\* A model with any iteration budgets and a container with its trials loaded.
Init ==
    /\ \E fl \in FilterLengths, sc \in Scenarios :
           LET c == LoadAll(fl, sc, Len(sc)) IN
               /\ datakeys = c.datakeys
               /\ data = c.data
               /\ hist = [NoHist EXCEPT !.nloads = Len(sc)]
    /\ \E in \in ModelInputs, n \in 0..MaxNIter, c \in 0..MaxNIterC :
           model = NewDstRF(in, n, c)
    /\ InitRest

\* An empty container, and a model whose fit makes no outer iteration.
InitData ==
    /\ datakeys = <<>>
    /\ \E fl \in FilterLengths : data = NewREGData(fl)
    /\ hist = NoHist
    /\ \E in \in ModelInputs : model = NewDstRF(in, 0, 0)
    /\ InitRest

----------------------------------------------------------------------------
(* Calls on the container *)

\* data.load(key, meg, stim)
Load(key, megIn, stimIn) ==
    /\ fit.pc = "idle"
    /\ hist.nloads < MaxLoads
    /\ LET r == load(datakeys, data, key, megIn, stimIn) IN
           /\ datakeys' = r.datakeys
           /\ data' = r.data
           /\ exc' = r.exc
    /\ hist' = [hist EXCEPT !.nloads = @ + 1, !.fresh = {}]
    /\ UNCHANGED <<sliced, model, fit, solve, px>>

\* data._precompute()
Precompute ==
    /\ fit.pc = "idle"
    /\ LET r == precompute(datakeys, data) IN
           /\ data' = [data EXCEPT !.cache = r.cache]
           /\ exc' = r.exc
           /\ hist' = [hist EXCEPT !.fresh = IF r.exc.kind = "none"
                                             THEN @ \cup {"data"} ELSE @ \ {"data"}]
    /\ UNCHANGED <<datakeys, sliced, model, fit, solve, px>>

----------------------------------------------------------------------------
(* fit *)

\* The history as a call of fit starts.
FreshHist(outcome) ==
    [NoHist EXCEPT !.nloads = hist.nloads, !.outcome = outcome, !.fresh = hist.fresh]

\* fit from _set_mu to the loop, on the container d (the one given, or its time
\* slice): the model's __init__iter(d), d._precompute(), theta = self.theta,
\* self.err = [].  A failing _precompute leaves the model initialised and the
\* old self.err.
FitSetMu(d, on, kw, tol) ==
    LET m == init_iter(model, datakeys, d)
        r == precompute(datakeys, d)
        d1 == [d EXCEPT !.cache = r.cache]
    IN  /\ IF on = "data" THEN data' = d1 /\ UNCHANGED sliced
                          ELSE sliced' = d1 /\ UNCHANGED data
        /\ exc' = r.exc
        /\ IF r.exc.kind # "none"
           THEN /\ model' = m
                /\ fit' = IdleFit
                /\ hist' = [FreshHist("raised") EXCEPT !.fresh = @ \ {on}]
           ELSE /\ model' = [m EXCEPT !.err = <<>>]
                /\ fit' = [IdleFit EXCEPT !.pc = "loop", !.on = on, !.kwargs = kw,
                                          !.tol = tol, !.theta = m.theta]
                /\ hist' = [FreshHist("running") EXCEPT !.fresh = @ \cup {on}]

\* fit(data, mu, tol): no keyword argument
FitCall(tol) ==
    /\ fit.pc = "idle"
    /\ FitSetMu(data, "data", NoKwargs, tol)
    /\ UNCHANGED <<datakeys, solve, px>>

\* fit(data, mu, tol, idx=idx): data = data.timeslice(idx) first
FitCallIdx(tol, idx) ==
    /\ fit.pc = "idle"
    /\ LET r == timeslice(datakeys, data, idx) IN
           IF r.exc.kind # "none"
           THEN /\ exc' = r.exc
                /\ fit' = IdleFit
                /\ hist' = [FreshHist("raised") EXCEPT !.champ = hist.champ]
                /\ UNCHANGED <<data, sliced, model>>
           ELSE FitSetMu(r.sliced, "sliced", [idx |-> idx], tol)
    /\ UNCHANGED <<datakeys, solve, px>>

\* self._construct_f(data, **kwargs): _construct_f takes no keyword argument, so
\* any makes the call a TypeError.  Otherwise the Cholesky factor of every
\* self.Sigma_b[key], key in self.keys, is taken (kept here as the covariance it
\* factors), and with it the whitened lead field and cached statistics: what
\* funct and grad_funct close over.
construct_f_Substituting(m, d, kw) ==
    [exc |-> NoExc,
     funct |-> [L |-> [t \in 1..Len(m.keys) |-> m.Sigma_b[m.keys[t]]],
                bE |-> d.cache.bE, bbt |-> d.cache.bbt, EtE |-> d.cache.EtE]]

construct_f(m, d, kw) ==
    IF DOMAIN kw # {}
    THEN [exc |-> Raise("TypeError", "fit"), funct |-> <<>>]
    ELSE IF \E t \in 1..Len(m.keys) : ~CholeskyOk(m.Sigma_b[m.keys[t]])
    THEN [exc |-> Raise("LinAlgError", "_construct_f"), funct |-> <<>>]
    ELSE [exc |-> NoExc,
          funct |-> [L |-> [t \in 1..Len(m.keys) |-> m.Sigma_b[m.keys[t]]],
                     bE |-> d.cache.bE, bbt |-> d.cache.bbt, EtE |-> d.cache.EtE]]

InRangeOffByOne(i, n) == i <= n

\* for i in (range(self.n_iter)): whether the loop has an iteration i (0-based)
InRangeNIter(i, n) == i < n

Step(label) == hist' = [hist EXCEPT !.steps = Append(@, label)]

\* for i in range(self.n_iter): funct, grad_funct = self._construct_f(data, **kwargs)
ConstructF ==
    /\ fit.pc = "loop"
    /\ InRangeNIter(fit.i, model.n_iter)
    /\ LET r == construct_f(model, FitData, fit.kwargs) IN
           IF r.exc.kind # "none"
           THEN /\ exc' = r.exc
                /\ fit' = [fit EXCEPT !.pc = "idle"]
                /\ hist' = [hist EXCEPT !.outcome = "raised", !.steps = <<"construct">>]
           ELSE /\ fit' = [fit EXCEPT !.pc = "fasta", !.funct = r.funct]
                /\ hist' = [hist EXCEPT !.steps = <<"construct">>, !.Gamma = model.Gamma]
                /\ UNCHANGED exc
    /\ UNCHANGED <<datakeys, data, sliced, model, solve, px>>

\* Theta = Fasta(...); Theta.learn(theta): the solve starts from theta and
\* leaves its result in Theta.coefs_
FastaLearn ==
    /\ fit.pc = "fasta"
    /\ \E c \in ThetaVals(model, FitData) :
           fit' = [fit EXCEPT !.pc = "residual", !.start = fit.theta, !.coefs = c]
    /\ Step("fasta")
    /\ UNCHANGED <<datakeys, data, sliced, model, solve, exc, px>>

\* self.err.append(self._residual(theta, Theta.coefs_))
AppendErr ==
    /\ fit.pc = "residual"
    /\ model' = [model EXCEPT !.err = Append(@, residual(fit.theta, fit.coefs))]
    /\ fit' = [fit EXCEPT !.pc = "assign"]
    /\ Step("err")
    /\ UNCHANGED <<datakeys, data, sliced, solve, exc, px>>

\* theta = Theta.coefs_; self.theta = theta
AssignTheta ==
    /\ fit.pc = "assign"
    /\ fit' = [fit EXCEPT !.pc = "test", !.theta = fit.coefs]
    /\ model' = [model EXCEPT !.theta = fit.coefs]
    /\ Step("theta")
    /\ UNCHANGED <<datakeys, data, sliced, solve, exc, px>>

TestTolSolveAnyway ==
    /\ fit.pc = "test"
    /\ fit' = [fit EXCEPT !.pc = "solve"]
    /\ hist' = [hist EXCEPT !.steps = Append(@, "test"), !.champ = "running"]
    /\ solve' = [IdleSolve EXCEPT !.trial = 1]
    /\ UNCHANGED <<datakeys, data, sliced, model, exc, px>>

\* if self.err[-1] < tol: break -- else self._solve(data, theta, **kwargs) is entered
TestTol ==
    /\ fit.pc = "test"
    /\ IF ErrBelowTol(model.err[Len(model.err)], fit.tol)
       THEN /\ fit' = [fit EXCEPT !.pc = "idle"]
            /\ hist' = [hist EXCEPT !.outcome = "tol", !.steps = Append(@, "test")]
            /\ UNCHANGED solve
       ELSE /\ fit' = [fit EXCEPT !.pc = "solve"]
            /\ hist' = [hist EXCEPT !.steps = Append(@, "test"), !.champ = "running"]
            /\ solve' = [IdleSolve EXCEPT !.trial = 1]
    /\ UNCHANGED <<datakeys, data, sliced, model, exc, px>>

\* the loop is exhausted: return self
FitReturn ==
    /\ fit.pc = "loop"
    /\ ~InRangeNIter(fit.i, model.n_iter)
    /\ fit' = [fit EXCEPT !.pc = "idle"]
    /\ hist' = [hist EXCEPT !.outcome = "exhausted"]
    /\ UNCHANGED <<datakeys, data, sliced, model, solve, exc, px>>

----------------------------------------------------------------------------
(* _solve: the Champagne steps *)

\* _solve as fit calls it: **kwargs is empty there (a fit with a keyword argument
\* has failed in ConstructF), so idx is slice(None, None), n_iterc is
\* self.n_iterc and use_optimized is True.
UseOptimized == TRUE

\* The start of a trial: for meg, covariates, key in data: the residual, its
\* covariance Cb = y y^T and the Cholesky factor of Cb; then the copies
\* gamma = self.Gamma[key].copy() and sigma_b = self.Sigma_b[key].copy().
SolveTrial ==
    /\ fit.pc = "solve"
    /\ solve.trial <= Len(datakeys)
    /\ LET key == datakeys[solve.trial]
           d == FitData
           y == Residual(model.lead_field, fit.theta, d.meg[key].v, d.covariates[key].v)
       IN  IF ~CholeskyOk(Dot(y, y))
           THEN /\ exc' = Raise("LinAlgError", "_solve")
                /\ fit' = [fit EXCEPT !.pc = "idle"]
                /\ hist' = [hist EXCEPT !.outcome = "raised", !.champ = "failed",
                                        !.steps = Append(@, "solve")]
                /\ solve' = [solve EXCEPT !.key = key]
           ELSE /\ fit' = [fit EXCEPT !.pc = "champ"]
                /\ solve' = [solve EXCEPT !.key = key, !.it = 0,
                                          !.gamma = model.Gamma[key],
                                          !.sigma_b = model.Sigma_b[key]]
                /\ UNCHANGED <<exc, hist>>
    /\ UNCHANGED <<datakeys, data, sliced, model, px>>

\* Whether the update of a block writes into the array it is given: the list
\* copy is shallow, so with the optimized 3 x 3 routine (_compute_gamma_ip
\* updates gamma[i] in place) the arrays written are those of self.Gamma[key];
\* the other two branches bind a new value to gamma[i].
WritesInPlace(m) == orientation(m.orientation) = 3 /\ UseOptimized

\* One Champagne iteration: the Cholesky factor of sigma_b, then every source's
\* block is updated and sigma_b is rebuilt from the noise covariance.
ChampagneIter ==
    /\ fit.pc = "champ"
    /\ solve.it < model.n_iterc
    /\ IF ~CholeskyOk(solve.sigma_b)
       THEN /\ exc' = Raise("LinAlgError", "_solve")
            /\ fit' = [fit EXCEPT !.pc = "idle"]
            /\ hist' = [hist EXCEPT !.outcome = "raised", !.champ = "failed",
                                    !.steps = Append(@, "solve")]
            /\ UNCHANGED <<solve, model>>
       ELSE /\ \E g \in [1..model.sources_n -> GammaVals] :
                 /\ solve' = [solve EXCEPT
                        !.it = @ + 1,
                        !.gamma = g,
                        !.sigma_b = ChampagneSigma(model, solve.sigma_b, g)]
                 /\ model' = IF WritesInPlace(model)
                             THEN [model EXCEPT !.Gamma[solve.key] = g]
                             ELSE model
            /\ UNCHANGED <<exc, fit, hist>>
    /\ UNCHANGED <<datakeys, data, sliced, px>>

\* self.Gamma[key] = gamma; self.Sigma_b[key] = sigma_b -- and the next trial
SolveStore ==
    /\ fit.pc = "champ"
    /\ solve.it >= model.n_iterc
    /\ model' = [model EXCEPT !.Gamma[solve.key] = solve.gamma,
                              !.Sigma_b[solve.key] = solve.sigma_b]
    /\ solve' = [solve EXCEPT !.trial = @ + 1]
    /\ fit' = [fit EXCEPT !.pc = "solve"]
    /\ UNCHANGED <<datakeys, data, sliced, exc, hist, px>>

\* _solve returns to fit: the next outer iteration
SolveReturn ==
    /\ fit.pc = "solve"
    /\ solve.trial > Len(datakeys)
    /\ fit' = [fit EXCEPT !.pc = "loop", !.i = @ + 1]
    /\ hist' = [hist EXCEPT !.nsolve = @ + 1, !.champ = "completed",
                            !.steps = Append(@, "solve")]
    /\ UNCHANGED <<datakeys, data, sliced, model, solve, exc, px>>

----------------------------------------------------------------------------
(* The program *)

\* DstRF.fit, step by step
FitSteps ==
    \/ ConstructF
    \/ FastaLearn
    \/ AppendErr
    \/ AssignTheta
    \/ TestTol
    \/ FitReturn
    \/ SolveTrial
    \/ ChampagneIter
    \/ SolveStore
    \/ SolveReturn

\* Fits of a model on a loaded container.
Next ==
    \/ \E tol \in TolInputs : FitCall(tol)
    \/ \E tol \in TolInputs, idx \in IdxInputs : FitCallIdx(tol, idx)
    \/ FitSteps

Spec == Init /\ [][Next]_vars

\* Calls on a container in any order: load, _precompute, and fits that make no
\* outer iteration (n_iter = 0).
NextData ==
    \/ \E key \in Keys, m \in MegInputs, s \in StimInputs : Load(key, m, s)
    \/ Precompute
    \/ \E tol \in TolInputs : FitCall(tol)
    \/ \E tol \in TolInputs, idx \in IdxInputs : FitCallIdx(tol, idx)
    \/ FitReturn

SpecData == InitData /\ [][NextData]_vars

----------------------------------------------------------------------------
(* Properties of fit *)

FitOrder == <<"construct", "fasta", "err", "theta", "test", "solve">>

IsPrefix(s, t) == Len(s) <= Len(t) /\ \A j \in 1..Len(s) : s[j] = t[j]

\* self.Sigma_b per trial, in the order of self.keys
SigmaOfKeys(m) == [t \in 1..Len(m.keys) |-> m.Sigma_b[m.keys[t]]]

LastErr == model.err[Len(model.err)]

\* C1: every outer iteration of fit goes: objective built from the current
\* Sigma_b, proximal-gradient solve started at the current theta, err recorded
\* (from the old theta), theta replaced, err < tol tested, and only then the
\* Champagne solver; the Champagne solver follows iff the err of that iteration
\* is not below tol, so at a tolerance stop Gamma and Sigma_b are those the last
\* objective was built from.
C1_FitStepOrder ==
    hist.outcome # "none" =>
        /\ IsPrefix(hist.steps, FitOrder)
        /\ fit.pc = "fasta" => fit.funct.L = SigmaOfKeys(model)
        /\ fit.pc \in {"residual", "assign"} =>
               fit.start = fit.theta /\ fit.start = model.theta
        /\ fit.pc = "assign" => LastErr = residual(fit.start, fit.coefs)
        /\ fit.pc = "test" => fit.theta = fit.coefs /\ model.theta = fit.coefs
        /\ Len(hist.steps) >= 5 =>
               ((Len(hist.steps) = 6 \/ fit.pc \in {"solve", "champ"})
                    <=> ~ErrBelowTol(LastErr, fit.tol))
        /\ hist.outcome = "tol" =>
               /\ SigmaOfKeys(model) = fit.funct.L
               /\ model.Gamma = hist.Gamma
               /\ hist.nsolve = Len(model.err) - 1

\* a fit stopped by the tolerance after at least one Champagne call
C1_TolStopAfterChampagne == hist.outcome = "tol" /\ hist.nsolve >= 1

\* C2: fit makes at most n_iter outer iterations; when the budget is exhausted
\* with no err below tol it returns without an error, self.theta is the last
\* iterate and self.err has one entry per iteration made, n_iter in all.
C2_FitWithinBudget ==
    hist.outcome # "none" =>
        /\ fit.i <= model.n_iter
        /\ Len(model.err) <= model.n_iter
        /\ hist.outcome \in {"running", "tol", "exhausted"} =>
               fit.i <= Len(model.err) /\ Len(model.err) <= fit.i + 1
        /\ hist.outcome = "exhausted" =>
               /\ exc = NoExc
               /\ fit.i = model.n_iter
               /\ Len(model.err) = model.n_iter
               /\ \A j \in 1..Len(model.err) : ~ErrBelowTol(model.err[j], fit.tol)
               /\ model.theta = fit.theta
               /\ model.theta = IF model.n_iter = 0 THEN ZeroTheta(model, FitData)
                                                    ELSE fit.coefs

\* a fit that used up a budget of at least two iterations
C2_BudgetExhausted == hist.outcome = "exhausted" /\ Len(model.err) >= 2

\* The errors fit(data.timeslice(idx), mu) can end with: those of timeslice, of
\* _precompute and of the factorizations.
SlicedFitErrors == {"KeyError", "IndexError", "ValueError", "LinAlgError"}

\* C3: fit(data, mu, idx=I) runs the fit on the time slice: it ends as
\* fit(data.timeslice(I), mu) does, so it fails only where that call fails.
C3_FitWithIdxAsOnSlice ==
    (hist.outcome = "raised" /\ DOMAIN fit.kwargs # {}) => exc.kind \in SlicedFitErrors

\* noise covariance + sum over the sources of L_i Gamma_i L_i^T
NoisePlusSources(m, gamma) ==
    m.noise_covariance +
    Sum([i \in 1..m.sources_n |->
            BlockEnergy(m.lead_field, orientation(m.orientation), i) * gamma[i]])

\* C7: for every trial key, once the model is initialised and whenever no
\* Champagne call is running or has failed, Sigma_b[key] is the noise covariance
\* plus the sum over all sources of L_i Gamma[key][i] L_i^T (any n_iterc >= 0).
C7_SigmaIsNoisePlusSources ==
    hist.champ \in {"none", "completed"} =>
        \A key \in DOMAIN model.Gamma :
            model.Sigma_b[key] = NoisePlusSources(model, model.Gamma[key])

\* a Champagne call has returned and changed a source covariance
C7_AfterChampagne ==
    /\ hist.champ = "completed"
    /\ model.n_iterc >= 1
    /\ \E key \in DOMAIN model.Gamma : model.Gamma[key] # InitGamma(model)

\* the residual covariance Cb of the trial _solve is at
SolveCb ==
    LET y == Residual(model.lead_field, fit.theta,
                      FitData.meg[solve.key].v, FitData.covariates[solve.key].v)
    IN  Dot(y, y)

\* C8 (as amended): a Cholesky failure on a trial's covariance, in _construct_f
\* or in _solve, ends the fit at that step with the error of the factorization:
\* the failed step is the last one made, the covariance is indeed not positive,
\* and no step ever works with the factor of a covariance that has none.
C8_CholeskyFailureAbortsFit ==
    /\ exc.kind = "LinAlgError" =>
           /\ fit.pc = "idle"
           /\ hist.outcome = "raised"
           /\ hist.steps # <<>>
           /\ LET last == hist.steps[Len(hist.steps)] IN
                  /\ exc.in = "_construct_f" =>
                         /\ last = "construct"
                         /\ \E t \in 1..Len(model.keys) :
                                ~CholeskyOk(model.Sigma_b[model.keys[t]])
                  /\ exc.in = "_solve" =>
                         /\ last = "solve"
                         /\ hist.champ = "failed"
                         /\ ~CholeskyOk(SolveCb) \/ ~CholeskyOk(solve.sigma_b)
    /\ fit.pc = "fasta" => \A t \in 1..Len(fit.funct.L) : CholeskyOk(fit.funct.L[t])
    /\ fit.pc = "champ" => CholeskyOk(SolveCb)
    /\ (fit.pc = "champ" /\ solve.it < model.n_iterc /\ ~CholeskyOk(solve.sigma_b)) =>
           hist.champ = "running"

\* the objective assembler failed on a covariance a Champagne call had stored
C8_ConstructFailed == exc.kind = "LinAlgError" /\ exc.in = "_construct_f"

\* the key of the trial whose covariance has no Cholesky factor
OffendingKey ==
    IF exc.in = "_solve" THEN solve.key
    ELSE model.keys[CHOOSE t \in 1..Len(model.keys) :
                        /\ ~CholeskyOk(model.Sigma_b[model.keys[t]])
                        /\ \A u \in 1..(t - 1) : CholeskyOk(model.Sigma_b[model.keys[u]])]

\* C8: a Cholesky failure on a trial's covariance aborts the whole fit at that
\* point, no later step runs and no value is substituted, and the error that
\* reaches the caller identifies the offending trial key.
C8_CholeskyFailureNamesTrial ==
    /\ C8_CholeskyFailureAbortsFit
    /\ exc.kind = "LinAlgError" => exc.key = OffendingKey

----------------------------------------------------------------------------
(* Properties of the container *)

\* C4: load fails when the key is already present and leaves the container as
\* it was, so that after any sequence of load calls datakeys has no key twice.
C4_NoDuplicateKeys ==
    \A i, j \in 1..Len(datakeys) : i # j => datakeys[i] # datakeys[j]

\* C5: after any sequence of load calls every stored trial has as many time
\* samples in its sensor series as rows in its covariate matrix; a load with
\* incompatible stimulus and sensor lengths fails and stores no such trial.
C5_TimeLengthsAgree ==
    \A key \in DOMAIN data.meg \cap DOMAIN data.covariates :
        Len(data.meg[key].v) = Len(data.covariates[key].v)

\* Every listed trial is stored whole, with matching lengths.
TrialsComplete(dk, d) ==
    \A i \in 1..Len(dk) :
        /\ dk[i] \in DOMAIN d.meg
        /\ dk[i] \in DOMAIN d.covariates
        /\ Len(d.meg[dk[i]].v) = Len(d.covariates[dk[i]].v)

\* The statistics of the trials of dk, from the arrays d stores now.
StatsOf(dk, d) ==
    [set |-> TRUE,
     bbt |-> [i \in 1..Len(dk) |->
                 [v |-> Dot(d.meg[dk[i]].v, d.meg[dk[i]].v), sq |-> d.meg[dk[i]].sq]],
     bE |-> [i \in 1..Len(dk) |->
                 LET b == d.meg[dk[i]].v
                     E == d.covariates[dk[i]].v
                 IN  [v |-> [f \in 1..Len(E[1]) |->
                                Sum([t \in 1..Len(b) |-> b[t] * E[t][f]])],
                      sq |-> d.meg[dk[i]].sq]],
     EtE |-> [i \in 1..Len(dk) |->
                 LET E == d.covariates[dk[i]].v
                 IN  [v |-> [f \in 1..Len(E[1]) |-> [h \in 1..Len(E[1]) |->
                                Sum([t \in 1..Len(E) |-> E[t][f] * E[t][h]])]],
                      sq |-> d.covariates[dk[i]].sq]]]

\* C6: the cached statistics are invalidated and recomputed whenever the trial
\* set changes: whenever they exist (and every listed trial is stored whole)
\* they have one entry per loaded trial, in datakeys order, computed from the
\* trial's current sensor series and covariate matrix.
C6_CacheTracksTrials ==
    (data.cache.set /\ TrialsComplete(datakeys, data)) =>
        data.cache = StatsOf(datakeys, data)

\* C6 (as amended): the statistics are recomputed by _precompute only, which fit
\* calls on the container it fits; from a _precompute that returned until the
\* next load they have one entry per loaded trial, in datakeys order, computed
\* from the trial's current arrays.  Before the first _precompute there are none.
C6_CacheFreshAfterPrecompute ==
    /\ "data" \in hist.fresh =>
           TrialsComplete(datakeys, data) /\ data.cache = StatsOf(datakeys, data)
    /\ "sliced" \in hist.fresh =>
           TrialsComplete(datakeys, sliced) /\ sliced.cache = StatsOf(datakeys, sliced)
    /\ ~data.cache.set => data.cache = NoCache

\* the statistics of two trials, recomputed after the second load
C6_RecomputedForTwoTrials ==
    /\ "data" \in hist.fresh
    /\ Len(datakeys) >= 2
    /\ hist.nloads >= 2

----------------------------------------------------------------------------
(* The objective handed to Fasta *)

\* Entries of the theta the objective is evaluated at: -MaxTheta..MaxTheta
MaxTheta == 1

\* The covariances the objective is built from (one sensor): those with an
\* integer Cholesky factor.
SigmaInputs == {1, 4}

\* linalg.cholesky(s, lower=True) of a one-sensor covariance
CholeskyFactor(s) == CHOOSE c \in 1..s : c * c = s

\* The number a cached entry stands for: v * num / den
NumOf(e) == (e.v * e.sq[1]) \div e.sq[2]

VecOf(e) == [f \in 1..Len(e.v) |-> (e.v[f] * e.sq[1]) \div e.sq[2]]

MatOf(e) ==
    [f \in 1..Len(e.v) |-> [h \in 1..Len(e.v[f]) |-> (e.v[f][h] * e.sq[1]) \div e.sq[2]]]

\* np.dot(v, A) for a row v
VecMat(v, A) == [h \in 1..Len(A[1]) |-> Sum([f \in 1..Len(v) |-> v[f] * A[f][h]])]

\* f(L, x, bbt, bE, EtE) of _construct_f
f(L, x, bbt, bE, ete) ==
    LET Lx == LeadTheta(L, x)
        y == bbt - 2 * Dot(bE, Lx) + Dot(Lx, VecMat(Lx, ete))
    IN  y \div 2

gradf_Ascent(L, x, bE, ete) ==
    LET Lx == LeadTheta(L, x)
        y == [h \in 1..Len(bE) |-> bE[h] - VecMat(Lx, ete)[h]]
    IN  [r \in 1..Len(L) |-> [h \in 1..Len(y) |-> L[r] * y[h]]]

\* gradf(L, x, bE, EtE) of _construct_f: -np.dot(L.T, bE - np.dot(np.dot(L, x), EtE))
gradf(L, x, bE, ete) ==
    LET Lx == LeadTheta(L, x)
        y == [h \in 1..Len(bE) |-> bE[h] - VecMat(Lx, ete)[h]]
    IN  [r \in 1..Len(L) |-> [h \in 1..Len(y) |-> 0 - L[r] * y[h]]]

\* leadfields[trial] = linalg.solve(L[trial], self.lead_field)
WhitenedLeadField(m, F, trial) ==
    [r \in 1..Len(m.lead_field) |-> m.lead_field[r] \div CholeskyFactor(F.L[trial])]

\* bEs[trial] = linalg.solve(L[trial], data._bE[trial])
WhitenedbE(F, trial) ==
    LET bE == VecOf(F.bE[trial])
    IN  [h \in 1..Len(bE) |-> bE[h] \div CholeskyFactor(F.L[trial])]

\* bbts[trial] = np.trace(linalg.solve(L[trial], linalg.solve(L[trial], data._bbt[trial]).T))
Whitenedbbt(F, trial) ==
    (NumOf(F.bbt[trial]) \div CholeskyFactor(F.L[trial])) \div CholeskyFactor(F.L[trial])

\* funct(x) of _construct_f, F being what _construct_f built: the sum of f over
\* the trials of self.keys
funct(m, F, x) ==
    Sum([trial \in 1..Len(m.keys) |->
            f(WhitenedLeadField(m, F, trial), x, Whitenedbbt(F, trial),
              WhitenedbE(F, trial), MatOf(F.EtE[trial]))])

\* grad_funct(x) of _construct_f: gradf of trial 0, plus gradf of every other trial
grad_funct(m, F, x) ==
    [r \in 1..Len(x) |-> [h \in 1..Len(x[r]) |->
        Sum([trial \in 1..Len(m.keys) |->
                gradf(WhitenedLeadField(m, F, trial), x, WhitenedbE(F, trial),
                      MatOf(F.EtE[trial]))[r][h]])]]

\* The containers the objective is evaluated on (filter_length 3: two basis
\* atoms, two samples kept per trial) and the lead fields; the numbers are
\* multiples of 4 (recordings) and of 2 (stimuli, lead fields) so that every
\* division above is exact.
ObjectiveFilterLengths == {3}

ObjectiveTrialA == [key |-> "a", meg |-> <<0, 0, 4, 8>>, stim |-> <<2, 0, 2, 4>>]

ObjectiveTrialB == [key |-> "b", meg |-> <<0, 0, 8, -4>>, stim |-> <<0, 2, 2, -2>>]

ObjectiveScenarios == {<<ObjectiveTrialA>>, <<ObjectiveTrialA, ObjectiveTrialB>>}

ObjectiveModels ==
    {[space |-> FALSE, L |-> <<2, 4>>, noise |-> 1],
     [space |-> FALSE, L |-> <<4, -2>>, noise |-> 1]}

ThetaInputs(m, d) ==
    [1..(m.sources_n * orientation(m.orientation)) ->
        [1..(d.filter_length - 1) -> (0 - MaxTheta)..MaxTheta]]

\* A container with its statistics computed, and a model initialised on it
\* whose Sigma_b are any of SigmaInputs.
InitObjective ==
    /\ \E fl \in ObjectiveFilterLengths, sc \in ObjectiveScenarios, in \in ObjectiveModels :
           LET c == LoadAll(fl, sc, Len(sc))
               d == [c.data EXCEPT !.cache = precompute(c.datakeys, c.data).cache]
               m == init_iter(NewDstRF(in, 1, 0), c.datakeys, d)
           IN  /\ datakeys = c.datakeys
               /\ data = d
               /\ hist = [NoHist EXCEPT !.nloads = Len(sc), !.fresh = {"data"}]
               /\ \E S \in [DOMAIN m.Sigma_b -> SigmaInputs] :
                      model = [m EXCEPT !.Sigma_b = S]
    /\ sliced = NewREGData(data.filter_length)
    /\ fit = IdleFit
    /\ solve = IdleSolve
    /\ exc = NoExc
    /\ px = [fn |-> "none", x |-> <<>>, fval |-> 0, grad |-> <<>>]

\* funct(x) is evaluated
EvalFunct(x) ==
    /\ px.fn = "none"
    /\ px' = [fn |-> "funct", x |-> x, grad |-> <<>>,
              fval |-> funct(model, construct_f(model, data, NoKwargs).funct, x)]
    /\ UNCHANGED <<datakeys, data, sliced, model, fit, solve, exc, hist>>

\* grad_funct(x) is evaluated
EvalGradFunct(x) ==
    /\ px.fn = "none"
    /\ px' = [fn |-> "grad_funct", x |-> x, fval |-> 0,
              grad |-> grad_funct(model, construct_f(model, data, NoKwargs).funct, x)]
    /\ UNCHANGED <<datakeys, data, sliced, model, fit, solve, exc, hist>>

NextObjective ==
    \/ \E x \in ThetaInputs(model, data) : EvalFunct(x)
    \/ \E x \in ThetaInputs(model, data) : EvalGradFunct(x)

SpecObjective == InitObjective /\ [][NextObjective]_vars

\* 0.5 * ||whitened(meg - lead_field theta covariates^T)||^2 summed over the
\* trials, from the stored arrays: the squared norm of the residual, times the
\* trial's squared scale, over the trial's covariance.
ExplicitObjective(m, dk, d, x) ==
    Sum([trial \in 1..Len(dk) |->
            LET key == dk[trial]
                r == Residual(m.lead_field, x, d.meg[key].v, d.covariates[key].v)
                q == d.meg[key].sq
            IN  ((Dot(r, r) * q[1]) \div (q[2] * m.Sigma_b[key])) \div 2])

\* x with e added to entry (r, h)
Nudge(x, r, h, e) == [x EXCEPT ![r][h] = @ + e]

\* C9: funct(x), computed from the cached statistics, is for every theta the sum
\* over the trials of 0.5 * ||whitened(meg - lead_field theta covariates^T)||^2
\* computed from the residual, and grad_funct(x) is the gradient of that sum,
\* sign included (the sum is quadratic in theta, so its central difference
\* about x is its exact derivative).
C9_ObjectiveFromCacheIsExplicit ==
    /\ px.fn = "funct" => px.fval = ExplicitObjective(model, datakeys, data, px.x)
    /\ px.fn = "grad_funct" =>
           \A r \in 1..Len(px.x) : \A h \in 1..Len(px.x[r]) :
               2 * px.grad[r][h] =
                   ExplicitObjective(model, datakeys, data, Nudge(px.x, r, h, 1))
                   - ExplicitObjective(model, datakeys, data, Nudge(px.x, r, h, -1))

\* a gradient that is not zero, of two trials with different covariances
C9_GradientOfTwoTrials ==
    /\ px.fn = "grad_funct"
    /\ Len(datakeys) = 2
    /\ model.Sigma_b[datakeys[1]] # model.Sigma_b[datakeys[2]]
    /\ \E r \in 1..Len(px.grad) : \E h \in 1..Len(px.grad[r]) : px.grad[r][h] # 0
    /\ \E r \in 1..Len(px.x) : \E h \in 1..Len(px.x[r]) : px.x[r][h] # 0

----------------------------------------------------------------------------
(* shrink *)

\* The arrays handed to shrink: ShrinkLen entries in -MaxAbs..MaxAbs (the
\* function works entry by entry, whatever the shape); thresholds 0..MaxMu.
ShrinkLen == 2

MaxAbs == 3

MaxMu == 3

\* np.sign
Sign(a) == IF a > 0 THEN 1 ELSE IF a < 0 THEN -1 ELSE 0

shrink_Unsigned(x, mu) == [i \in 1..Len(x) |-> Max(Abs(x[i]) - mu, 0)]

\* shrink(x, mu) = np.multiply(np.sign(x), np.maximum(np.abs(x) - mu, 0))
shrink(x, mu) == [i \in 1..Len(x) |-> Sign(x[i]) * Max(Abs(x[i]) - mu, 0)]

InitShrink ==
    /\ datakeys = <<>>
    /\ \E fl \in FilterLengths : data = NewREGData(fl)
    /\ sliced = NewREGData(data.filter_length)
    /\ \E in \in ModelInputs : model = NewDstRF(in, 0, 0)
    /\ fit = IdleFit
    /\ solve = IdleSolve
    /\ exc = NoExc
    /\ hist = NoHist
    /\ \E x \in [1..ShrinkLen -> (0 - MaxAbs)..MaxAbs], mu \in 0..MaxMu :
           px = [fn |-> "shrink", calls |-> 0, x |-> x, mu |-> mu,
                 out |-> <<>>, out0 |-> <<>>, again |-> <<>>]

\* shrink(x, mu) and shrink(x, 0)
ShrinkCall ==
    /\ px.calls = 0
    /\ px' = [px EXCEPT !.calls = 1, !.out = shrink(px.x, px.mu),
                        !.out0 = shrink(px.x, 0)]
    /\ UNCHANGED <<datakeys, data, sliced, model, fit, solve, exc, hist>>

\* shrink(shrink(x, mu), 0)
ShrinkAgain ==
    /\ px.calls = 1
    /\ px' = [px EXCEPT !.calls = 2, !.again = shrink(px.out, 0)]
    /\ UNCHANGED <<datakeys, data, sliced, model, fit, solve, exc, hist>>

NextShrink == ShrinkCall \/ ShrinkAgain

SpecShrink == InitShrink /\ [][NextShrink]_vars

\* C10: for every x and every threshold mu >= 0, |shrink(x, mu)_i| <= |x_i| for
\* every entry, shrink(x, 0) = x, and shrink(shrink(x, mu), 0) = shrink(x, mu).
C10_ShrinkContracts ==
    /\ px.calls >= 1 =>
           /\ \A i \in 1..Len(px.x) : Abs(px.out[i]) <= Abs(px.x[i])
           /\ px.out0 = px.x
    /\ px.calls = 2 => px.again = px.out

\* a negative entry made smaller and a positive one cut to 0, shrunk again
C10_ShrunkAndShrunkAgain ==
    /\ px.calls = 2
    /\ px.mu > 0
    /\ \E i \in 1..Len(px.x) : px.x[i] < px.out[i] /\ px.out[i] < 0
    /\ \E i \in 1..Len(px.x) : px.x[i] > 0 /\ px.out[i] = 0

----------------------------------------------------------------------------
(* timeslice called on its own, and loads on the container it returns *)

\* What is kept of the calls of timeslice: whether one has returned, its idx,
\* the container it was called on (as it was then) and the container it
\* returned (as it was then); and the number of load calls made on a returned
\* container.
NoSlice ==
    [fn |-> "timeslice", made |-> FALSE, idx |-> <<>>, of |-> <<>>, out |-> <<>>,
     slice_loads |-> 0]

\* An empty container and no slice of it yet.
InitSlice ==
    /\ datakeys = <<>>
    /\ \E fl \in FilterLengths : data = NewREGData(fl)
    /\ sliced = NewREGData(data.filter_length)
    /\ hist = NoHist
    /\ \E in \in ModelInputs : model = NewDstRF(in, 0, 0)
    /\ fit = IdleFit
    /\ solve = IdleSolve
    /\ exc = NoExc
    /\ px = NoSlice

\* sliced = data.timeslice(idx)
Timeslice(idx) ==
    /\ fit.pc = "idle"
    /\ LET r == timeslice(datakeys, data, idx) IN
           /\ exc' = r.exc
           /\ IF r.exc.kind = "none"
              THEN /\ sliced' = r.sliced
                   /\ px' = [px EXCEPT !.made = TRUE, !.idx = idx, !.of = data,
                                       !.out = r.sliced]
              ELSE UNCHANGED <<sliced, px>>
    /\ hist' = [hist EXCEPT !.fresh = @ \ {"sliced"}]
    /\ UNCHANGED <<datakeys, data, model, fit, solve>>

\* sliced.load(key, meg, stim): load on the container timeslice returned.  Its
\* datakeys attribute is the list of the original, and that list gets the key.
LoadOnSlice(key, megIn, stimIn) ==
    /\ fit.pc = "idle"
    /\ px.made
    /\ hist.nloads < MaxLoads
    /\ LET r == load(datakeys, sliced, key, megIn, stimIn) IN
           /\ datakeys' = r.datakeys
           /\ sliced' = r.data
           /\ exc' = r.exc
    /\ hist' = [hist EXCEPT !.nloads = @ + 1, !.fresh = {}]
    /\ px' = [px EXCEPT !.slice_loads = @ + 1]
    /\ UNCHANGED <<data, model, fit, solve>>

NextSlice ==
    \/ \E key \in Keys, megIn \in MegInputs, stimIn \in StimInputs :
           Load(key, megIn, stimIn)
    \/ \E idx \in IdxInputs : Timeslice(idx)
    \/ \E key \in Keys, megIn \in MegInputs, stimIn \in StimInputs :
           LoadOnSlice(key, megIn, stimIn)

SpecSlice == InitSlice /\ [][NextSlice]_vars

\* idx is the full index range of an array of n time samples
FullRange(idx, n) == Len(idx) = n /\ \A j \in 1..n : idx[j] = j

\* C11: timeslice applied with the full index range returns a container whose
\* sensor series and covariate matrix are, for every loaded trial (the idx being
\* the full range of that trial's stored arrays), equal to the original's, for
\* containers holding one or several trials.  Stated for the containers whose
\* loads all returned, each with a key of its own and with matching lengths.
C11_FullRangeTimesliceIsIdentity ==
    (/\ px.made
     /\ \A i, j \in 1..Len(datakeys) : i # j => datakeys[i] # datakeys[j]
     /\ TrialsComplete(datakeys, px.of)) =>
        \A key \in DOMAIN px.out.meg :
            (/\ FullRange(px.idx, Len(px.of.meg[key].v))
             /\ FullRange(px.idx, Len(px.of.covariates[key].v))) =>
                /\ px.out.meg[key] = px.of.meg[key]
                /\ px.out.covariates[key] = px.of.covariates[key]

----------------------------------------------------------------------------
(* The frame of a failed _solve *)

\* C12: _solve writes a trial's source covariances and data covariance onto the
\* model only at the end of that trial's inner iterations: when _solve fails
\* while processing a trial (its key not processed earlier in the call), the
\* model's Gamma[key] and Sigma_b[key] are those from before the call, whatever
\* the orientation and the gamma update.
C12_FailedSolveLeavesTrial ==
    (/\ hist.champ = "failed"
     /\ exc.in = "_solve"
     /\ \A u \in 1..(solve.trial - 1) : datakeys[u] # solve.key) =>
        /\ model.Gamma[solve.key] = hist.Gamma[solve.key]
        /\ model.Sigma_b[solve.key] = fit.funct.L[solve.trial]

----------------------------------------------------------------------------
(* The container timeslice returns and the original *)

\* C13: timeslice returns a container independent of the original: operations
\* on the one (load of a key in particular) leave the datakeys, meg and
\* covariates of the other unchanged.  So the original's datakeys has one entry
\* per load made on the original, each a key whose sensor series the original
\* stores, and the keys of the returned container are those it was given by
\* timeslice or by a load of its own.
C13_SliceIndependentOfOriginal ==
    /\ Len(datakeys) = hist.nloads - px.slice_loads
    /\ \A i \in 1..Len(datakeys) : datakeys[i] \in DOMAIN data.meg
    /\ px.made => \A i \in 1..Len(datakeys) : datakeys[i] \in DOMAIN sliced.meg

----------------------------------------------------------------------------
(* The first outer iteration *)

\* C14: every fit starts its iterations from theta = 0, so the relative change
\* recorded in the first outer iteration has a zero denominator and is below no
\* tol; fit never stops by tolerance in its first outer iteration, and a fit
\* with n_iter >= 1 that returns has run the Champagne solver at least once.
C14_NoToleranceStopInFirstIteration ==
    /\ (hist.outcome = "running" /\ fit.i = 0
            /\ fit.pc \in {"loop", "fasta", "residual", "assign"}) =>
           fit.theta = ZeroTheta(model, FitData)
    /\ (hist.outcome \in {"running", "tol", "exhausted"} /\ Len(model.err) >= 1) =>
           /\ model.err[1].den = 0
           /\ \A tol \in TolInputs : ~ErrBelowTol(model.err[1], tol)
    /\ (fit.pc = "test" /\ fit.i = 0) => ~ErrBelowTol(LastErr, fit.tol)
    /\ hist.outcome = "tol" => fit.i >= 1 /\ hist.nsolve >= 1
    /\ (hist.outcome = "exhausted" /\ model.n_iter >= 1) => hist.nsolve >= 1

\* the first iteration moved theta as far as its norm, tol is larger than 1,
\* and the Champagne solver has run
C14_FirstIterationWentOn ==
    /\ hist.outcome = "running"
    /\ fit.pc = "loop"
    /\ Len(model.err) = 1
    /\ hist.nsolve = 1
    /\ model.err[1].num > 0
    /\ fit.tol[1] > fit.tol[2]

====
